---- MODULE Spec2Model ----
(***************************************************************************)
(* A model of the two algorithmic cores of the repository:                 *)
(*   - dgl::EdmondsKarpDynamic (src/dgl/EdmondsKarpDynamic.h), the         *)
(*     incremental maximum-flow engine, and                                *)
(*   - Minisat::Cover (src/Cover.h), the minimal-cover selection.          *)
(* The collaborators (DynamicGraph, Solver) are not part of the sources    *)
(* at hand; they are modelled from their interface descriptions.           *)
(***************************************************************************)
EXTENDS Integers, Sequences, FiniteSets, TLC

\* ------------------------------------------------------------------------
\* Bounds of the model
\* ------------------------------------------------------------------------
\* the number of enable/disable mutations a behaviour makes
MaxMods == 3
\* the same, for a caller that passes different (s,t) pairs
MaxModsST == 2
\* the number of history clears a behaviour makes
MaxClears == 1
\* the longest non-empty vector a caller hands to minCut
MaxCutEntry == 3
\* the number of enable/disable mutations of a documented flow scenario
MaxModsScenario == 3
\* the enables and disables a caller that reuses its cut vector makes
MaxModsReuse == 2

\* ------------------------------------------------------------------------
\* The graph (DynamicGraph): fixed structure, mutable edge status
\* ------------------------------------------------------------------------
NumNodes == 4
NumEdges == 7
Nodes == 0 .. (NumNodes - 1)
EdgeIds == 0 .. (NumEdges - 1)

\* g.all_edges[id] = (from, to, id); capacity[id].  Edges 0..4 are the
\* five edges of the documented flow scenario; 5 and 6 close cycles.
all_edges ==
  [id \in EdgeIds |->
     CASE id = 0 -> [from |-> 0, to |-> 1]
       [] id = 1 -> [from |-> 0, to |-> 2]
       [] id = 2 -> [from |-> 1, to |-> 2]
       [] id = 3 -> [from |-> 1, to |-> 3]
       [] id = 4 -> [from |-> 2, to |-> 3]
       [] id = 5 -> [from |-> 1, to |-> 0]
       [] id = 6 -> [from |-> 2, to |-> 1]]

capacity ==
  [id \in EdgeIds |->
     CASE id = 0 -> 3
       [] id = 1 -> 2
       [] id = 2 -> 1
       [] id = 3 -> 2
       [] id = 4 -> 3
       [] id = 5 -> 2
       [] id = 6 -> 2]

\* the (s,t) pairs a caller may pass
FixedPair == <<0, 3>>
STPairs == {<<0, 3>>, <<1, 3>>}

EdgeSeq == [i \in 1 .. NumEdges |-> i - 1]

\* g.incident(u,i), i = 0..g.nIncident(u)-1: the edges leaving u, by id
incident(u) == SelectSeq(EdgeSeq, LAMBDA id : all_edges[id].from = u)
\* g.incoming(u,i): the edges entering u, by id
incoming(u) == SelectSeq(EdgeSeq, LAMBDA id : all_edges[id].to = u)

Min(a, b) == IF a <= b THEN a ELSE b

VARIABLES
  \* --- DynamicGraph
  enabled,          \* g.edgeEnabled(id)
  history,          \* g.history: sequence of [id, addition]
  modifications,    \* g.modifications
  additions,        \* g.additions
  deletions,        \* g.deletions
  historyclears,    \* g.historyclears
  changed,          \* g.changed()
  \* --- EdmondsKarpDynamic
  f, F, curflow, last_modification, last_deletion, last_addition,
  history_qhead, last_history_clear, prev, M, edge_enabled,
  \* --- the caller
  pairs,            \* the (s,t) pairs this caller passes
  budget,           \* the number of mutations this behaviour makes
  reuse,            \* whether this caller hands minCut a vector it used before
  cut,              \* the caller's cut vector
  res,              \* what the last maxFlow/minCut call did and returned
  calls             \* the calls a caller that keeps a record has made

gvars == <<enabled, history, modifications, additions, deletions,
           historyclears, changed>>
evars == <<f, F, curflow, last_modification, last_deletion, last_addition,
           history_qhead, last_history_clear, prev, M, edge_enabled>>
flowvars == <<gvars, evars, pairs, budget, reuse, cut, res, calls>>

\* --- the Solver a Cover works on, the Cover and its caller
VARIABLES
  clauses,          \* S.clauses, each entry the literals S.ca[cr] of a clause
  assigns,          \* S.assigns: the value of every variable
  trail,            \* S.trail up to S.trail_lim[0]: the literals of level 0
  watches,          \* S.watches: literal -> sequence of [cref, blocker]
  opt_fast_partial, \* the option flag
  include,          \* Cover::include
  subset,           \* Cover::subset
  in_cover,         \* Cover::in_cover
  cover,            \* the vector the caller passes to getCover
  excludes,         \* excludeFromCover calls so far
  cres              \* what the last getCover did

svars == <<clauses, assigns, trail, watches, opt_fast_partial>>
covervars == <<svars, include, subset, in_cover, cover, excludes, cres>>
vars == <<flowvars, covervars>>


\* ------------------------------------------------------------------------
\* EdmondsKarpDynamic: the search and the augmentations
\* ------------------------------------------------------------------------
\* INF(0xF0F0F0)
INF == 15790320

LocalEdge(from, id, backward) == [from |-> from, id |-> id, backward |-> backward]

\* The engine's fields a call works on, with what the call is seen to do:
\* bfs counts the searches run, augOK records that every augmentation step
\* left 0 <= F[id] <= capacity[id], stuck that a walk along prev did not
\* arrive at its start node, repairs counts the replayed deletions of edges
\* that carried flow; foundFrom holds the start nodes of the searches that
\* found their target, bottleneckOK records that each of them returned the
\* least residual capacity along the chain of prev it left.
Engine ==
  [F |-> F, M |-> M, prev |-> prev, f |-> f, edge_enabled |-> edge_enabled,
   bfs |-> 0, augOK |-> TRUE, stuck |-> FALSE,
   added_Edges |-> FALSE, needsReflow |-> FALSE, repairs |-> 0,
   zeroDeletions |-> 0, pureClears |-> TRUE,
   foundFrom |-> {}, bottleneckOK |-> TRUE]

\* the loop over g.incident(u,i) of BreadthFirstSearch; w = [prev, M, Q, found]
RECURSIVE BFSIncident(_, _, _, _, _, _)
BFSIncident(w, u, t, Fl, en, ids) ==
  IF ids = << >> THEN w
  ELSE LET id == Head(ids)
           v == all_edges[id].to
           c == capacity[id]
       IN IF ~en[id] THEN BFSIncident(w, u, t, Fl, en, Tail(ids))
          ELSE IF (c - Fl[id]) > 0 /\ w.prev[v].from = -1
          THEN LET w2 == [w EXCEPT !.prev[v] = LocalEdge(u, id, FALSE),
                                   !.M[v] = Min(w.M[u], c - Fl[id])]
               IN IF v # t
                  THEN BFSIncident([w2 EXCEPT !.Q = Append(@, v)], u, t, Fl, en, Tail(ids))
                  ELSE [w2 EXCEPT !.found = TRUE]
          ELSE BFSIncident(w, u, t, Fl, en, Tail(ids))

\* the loop over g.incoming(u,i) of BreadthFirstSearch
RECURSIVE BFSIncoming(_, _, _, _, _, _)
BFSIncoming(w, u, t, Fl, en, ids) ==
  IF ids = << >> THEN w
  ELSE LET id == Head(ids)
           v == all_edges[id].from
           c == Fl[id]
       IN IF ~en[id] THEN BFSIncoming(w, u, t, Fl, en, Tail(ids))
          ELSE IF (c - 0) > 0 /\ w.prev[v].from = -1
          THEN LET w2 == [w EXCEPT !.prev[v] = LocalEdge(u, id, TRUE),
                                   !.M[v] = Min(w.M[u], c - 0)]
               IN IF v # t
                  THEN BFSIncoming([w2 EXCEPT !.Q = Append(@, v)], u, t, Fl, en, Tail(ids))
                  ELSE [w2 EXCEPT !.found = TRUE]
          ELSE BFSIncoming(w, u, t, Fl, en, Tail(ids))

\* for(j = 0; j < Q.size(); j++): a found target ends the edge loop it was
\* found in, not the loop over Q
RECURSIVE BFSLoop(_, _, _, _, _)
BFSLoop(w, j, t, Fl, en) ==
  IF j > Len(w.Q) THEN w
  ELSE LET u == w.Q[j]
           w1 == BFSIncident(w, u, t, Fl, en, incident(u))
           w2 == BFSIncoming(w1, u, t, Fl, en, incoming(u))
       IN BFSLoop(w2, j + 1, t, Fl, en)

\* the residual capacity of the step prev[v] of a path: F[id] backward,
\* capacity[id] - F[id] forward, and arc for the short circuit arc (id -1)
StepResidual(pv, Fl, arc) ==
  IF pv.id < 0 THEN arc
  ELSE IF pv.backward THEN Fl[pv.id] ELSE capacity[pv.id] - Fl[pv.id]

\* the least residual capacity along the chain of prev from v back to the
\* node the search started at (from = -2); -1 for a chain that does not
\* arrive there
RECURSIVE PathBottleneck(_, _, _, _, _)
PathBottleneck(pr, v, Fl, arc, fuel) ==
  IF pr[v].from = -2 THEN INF
  ELSE IF fuel = 0 \/ pr[v].from \notin Nodes THEN -1
  ELSE Min(StepResidual(pr[v], Fl, arc),
           PathBottleneck(pr, pr[v].from, Fl, arc, fuel - 1))

\* what a search leaves: prev and M as written, and "return M[t]" when the
\* target was found, 0 otherwise
BFSResult(e, w, t) ==
  [e |-> [e EXCEPT !.prev = w.prev, !.M = w.M, !.bfs = @ + 1,
                   !.foundFrom = IF w.found THEN @ \cup {w.Q[1]} ELSE @,
                   !.bottleneckOK =
                      @ /\ (w.found =>
                              w.M[t] = PathBottleneck(w.prev, t, e.F, w.arc,
                                                      2 * NumNodes))],
   m |-> IF w.found THEN w.M[t] ELSE 0]

\* prev[i].from = -1 for every i, prev[s].from = -2, Q = {s}
BFSStart(e, s) ==
  [prev |-> [[n \in Nodes |-> [e.prev[n] EXCEPT !.from = -1]]
                EXCEPT ![s].from = -2],
   M |-> e.M, Q |-> <<s>>, found |-> FALSE, arc |-> 0]

\* Weight BreadthFirstSearch(int s, int t, Weight bound): [e, m]
BreadthFirstSearch(e, s, t) ==
  BFSResult(e, BFSLoop(BFSStart(e, s), 1, t, e.F, e.edge_enabled), t)

\* a walk that adds m on every step, backward or not
RECURSIVE AugmentForwardOnly(_, _, _, _, _)
AugmentForwardOnly(e, s, v, m, fuel) ==
  IF v = s THEN e
  ELSE IF fuel = 0 \/ e.prev[v].from \notin Nodes THEN [e EXCEPT !.stuck = TRUE]
  ELSE LET u == e.prev[v].from
           id == e.prev[v].id
           nf == e.F[id] + m
       IN AugmentForwardOnly([e EXCEPT !.F[id] = nf,
                                       !.augOK = @ /\ nf <= capacity[id] /\ nf >= 0],
                             s, u, m, fuel - 1)

\* the walk "int v = t; while (v != s)" of maxFlow_p and maxFlow_residual
RECURSIVE Augment(_, _, _, _, _)
Augment(e, s, v, m, fuel) ==
  IF v = s THEN e
  ELSE IF fuel = 0 \/ e.prev[v].from \notin Nodes THEN [e EXCEPT !.stuck = TRUE]
  ELSE LET u == e.prev[v].from
           id == e.prev[v].id
           nf == IF e.prev[v].backward THEN e.F[id] - m ELSE e.F[id] + m
       IN Augment([e EXCEPT !.F[id] = nf,
                            !.augOK = @ /\ nf <= capacity[id] /\ nf >= 0],
                  s, u, m, fuel - 1)

\* No run of augmentations that keeps within the capacities is longer than
\* this; a loop that goes on beyond it is recorded as stuck.
MaxAugmentations == 2 * NumEdges * (NumEdges + NumNodes)

\* Weight maxFlow_p(int s, int t): the loop, b being the search just run
RECURSIVE maxFlow_pLoop(_, _, _, _)
maxFlow_pLoop(b, s, t, n) ==
  IF b.m = 0 THEN b.e
  ELSE IF n >= MaxAugmentations \/ b.e.stuck THEN [b.e EXCEPT !.stuck = TRUE]
  ELSE maxFlow_pLoop(
         BreadthFirstSearch(
           Augment([b.e EXCEPT !.f = @ + b.m], s, t, b.m, NumNodes), s, t),
         s, t, n + 1)

maxFlow_p(e, s, t) == maxFlow_pLoop(BreadthFirstSearch(e, s, t), s, t, 0)

\* "if (bound >= 0 && new_flow + m > bound) m = bound - new_flow"
BoundedM(m, bound, new_flow) ==
  IF bound >= 0 /\ new_flow + m > bound THEN bound - new_flow ELSE m

\* Weight maxFlow_residual(int s, int t, Weight & bound): [e, flow]; the
\* loop, b being the search just run
RECURSIVE maxFlow_residualLoop(_, _, _, _, _, _)
maxFlow_residualLoop(b, s, t, bound, new_flow, n) ==
  IF BoundedM(b.m, bound, new_flow) <= 0 THEN [e |-> b.e, flow |-> new_flow]
  ELSE IF n >= MaxAugmentations \/ b.e.stuck
  THEN [e |-> [b.e EXCEPT !.stuck = TRUE], flow |-> new_flow]
  ELSE maxFlow_residualLoop(
         BreadthFirstSearch(
           Augment(b.e, s, t, BoundedM(b.m, bound, new_flow), NumNodes), s, t),
         s, t, bound, new_flow + BoundedM(b.m, bound, new_flow), n + 1)

maxFlow_residual(e, s, t, bound) ==
  maxFlow_residualLoop(BreadthFirstSearch(e, s, t), s, t, bound, 0, 0)

\* the short circuit arc out of u: followed without asking whether its head
\* was seen
ShortCircuitArc(w, u, t, shortCircuitFrom, shortCircuitTo, shortCircuitCapacity, shortCircuitFlow) ==
  IF u = shortCircuitFrom /\ shortCircuitCapacity - shortCircuitFlow > 0
  THEN [w EXCEPT !.prev[shortCircuitTo] = LocalEdge(u, -1, FALSE),
                 !.M[shortCircuitTo] =
                    Min(w.M[u], shortCircuitCapacity - shortCircuitFlow),
                 !.Q = IF shortCircuitTo # t THEN Append(@, shortCircuitTo) ELSE @,
                 !.found = (shortCircuitTo = t),
                 !.arc = shortCircuitCapacity - shortCircuitFlow]
  ELSE w

\* "return M[t]" at the first place the target is found: on the arc (w0), in
\* the loop over g.incident (w1) or in the loop over g.incoming (w2)
FirstFound(w0, w1, w2) ==
  IF w0.found THEN w0 ELSE IF w1.found THEN w1 ELSE w2

\* the loop over Q of the BreadthFirstSearch with a short circuit arc; the
\* search returns as soon as the target is found
RECURSIVE BFSLoopShortCircuit(_, _, _, _, _, _, _, _, _)
BFSLoopShortCircuit(w, j, t, Fl, en, shortCircuitFrom, shortCircuitTo, shortCircuitCapacity, shortCircuitFlow) ==
  IF w.found \/ j > Len(w.Q) THEN w
  ELSE BFSLoopShortCircuit(
         FirstFound(
           ShortCircuitArc(w, w.Q[j], t, shortCircuitFrom, shortCircuitTo,
                           shortCircuitCapacity, shortCircuitFlow),
           BFSIncident(
             ShortCircuitArc(w, w.Q[j], t, shortCircuitFrom, shortCircuitTo,
                             shortCircuitCapacity, shortCircuitFlow),
             w.Q[j], t, Fl, en, incident(w.Q[j])),
           BFSIncoming(
             BFSIncident(
               ShortCircuitArc(w, w.Q[j], t, shortCircuitFrom, shortCircuitTo,
                               shortCircuitCapacity, shortCircuitFlow),
               w.Q[j], t, Fl, en, incident(w.Q[j])),
             w.Q[j], t, Fl, en, incoming(w.Q[j]))),
         j + 1, t, Fl, en, shortCircuitFrom, shortCircuitTo,
         shortCircuitCapacity, shortCircuitFlow)

\* Weight BreadthFirstSearch(int s, int t, int shortCircuitFrom,
\*   int shortCircuitTo, Weight& shortCircuitCapacity, Weight& shortCircuitFlow)
BreadthFirstSearchShortCircuit(e, s, t, shortCircuitFrom, shortCircuitTo, shortCircuitCapacity, shortCircuitFlow) ==
  BFSResult(e,
            BFSLoopShortCircuit(BFSStart(e, s), 1, t, e.F, e.edge_enabled,
                                shortCircuitFrom, shortCircuitTo,
                                shortCircuitCapacity, shortCircuitFlow),
            t)

\* the walk of maxFlow_p(s,t,shortCircuitFrom,shortCircuitTo,bound): a step
\* with id -1 changes no F and goes on from shortCircuitFrom
RECURSIVE AugmentShortCircuit(_, _, _, _, _, _)
AugmentShortCircuit(e, s, v, m, shortCircuitFrom, fuel) ==
  IF v = s THEN e
  ELSE IF fuel = 0 THEN [e EXCEPT !.stuck = TRUE]
  ELSE LET u == e.prev[v].from
           id == e.prev[v].id
           nf == IF e.prev[v].backward THEN e.F[id] - m ELSE e.F[id] + m
       IN IF id >= 0
          THEN IF u \notin Nodes THEN [e EXCEPT !.stuck = TRUE]
               ELSE AugmentShortCircuit(
                      [e EXCEPT !.F[id] = nf,
                                !.augOK = @ /\ nf <= capacity[id] /\ nf >= 0],
                      s, u, m, shortCircuitFrom, fuel - 1)
          ELSE AugmentShortCircuit(e, s, shortCircuitFrom, m, shortCircuitFrom, fuel - 1)

\* Weight maxFlow_p(int s, int t, int shortCircuitFrom, int shortCircuitTo,
\*   Weight & bound): [e, flow]; shortCircuitFlow = 0 throughout; the loop, b
\* being the search just run
RECURSIVE maxFlow_p_shortCircuitLoop(_, _, _, _, _, _, _, _)
maxFlow_p_shortCircuitLoop(b, s, t, shortCircuitFrom, shortCircuitTo, bound, newFlow, n) ==
  IF BoundedM(b.m, bound, newFlow) = 0 THEN [e |-> b.e, flow |-> newFlow]
  ELSE IF n >= MaxAugmentations \/ b.e.stuck
  THEN [e |-> [b.e EXCEPT !.stuck = TRUE], flow |-> newFlow]
  ELSE maxFlow_p_shortCircuitLoop(
         BreadthFirstSearchShortCircuit(
           AugmentShortCircuit(b.e, s, t, BoundedM(b.m, bound, newFlow),
                               shortCircuitFrom, 2 * NumNodes),
           s, t, shortCircuitFrom, shortCircuitTo, bound, 0),
         s, t, shortCircuitFrom, shortCircuitTo, bound,
         newFlow + BoundedM(b.m, bound, newFlow), n + 1)

maxFlow_p_shortCircuit(e, s, t, shortCircuitFrom, shortCircuitTo, bound) ==
  maxFlow_p_shortCircuitLoop(
    BreadthFirstSearchShortCircuit(e, s, t, shortCircuitFrom, shortCircuitTo,
                                   bound, 0),
    s, t, shortCircuitFrom, shortCircuitTo, bound, 0, 0)

\* ------------------------------------------------------------------------
\* EdmondsKarpDynamic::maxFlow
\* ------------------------------------------------------------------------
\* a replay that drops the flow of a deleted edge without repairing it
ReplayEventNoRepair(e, ev, s, t) ==
  LET edgeid == ev.id
  IN IF ev.addition /\ enabled[edgeid]
     THEN [e EXCEPT !.added_Edges = TRUE, !.edge_enabled[edgeid] = TRUE]
     ELSE IF ~ev.addition /\ ~enabled[edgeid]
     THEN [e EXCEPT !.edge_enabled[edgeid] = FALSE, !.F[edgeid] = 0,
                    !.repairs = e.repairs + (IF e.F[edgeid] = 0 THEN 0 ELSE 1)]
     ELSE e

\* a repair that stops at the detour, whatever it made up for
RepairDeletionResidualOnly(r, edgeid, u, v, fv, s, t) ==
  [r.e EXCEPT !.F[edgeid] = 0, !.repairs = @ + 1]

\* after "flow = maxFlow_residual(u, v, fv)" (r): if the detour did not make
\* up for fv, the rest is pushed from u to v over the arc s -> t; F[edgeid] = 0
RepairDeletion(r, edgeid, u, v, fv, s, t) ==
  [(IF r.flow = fv THEN r.e
    ELSE [maxFlow_p_shortCircuit(r.e, u, v, s, t, fv - r.flow).e
            EXCEPT !.needsReflow = TRUE])
     EXCEPT !.F[edgeid] = 0, !.repairs = @ + 1]

\* a zero-flow deletion that asks for the recount of f
ZeroFlowDeletionReflow(e, edgeid) ==
  [e EXCEPT !.edge_enabled[edgeid] = FALSE, !.needsReflow = TRUE]

\* "edge_enabled[edgeid]=false; ... if(fv==0){ //do nothing."
ZeroFlowDeletion(e, edgeid) == [e EXCEPT !.edge_enabled[edgeid] = FALSE]

\* one event g.history[i] of the replay loop
ReplayEvent(e, ev, s, t) ==
  LET edgeid == ev.id
      fv0 == e.F[edgeid]
      u == IF fv0 < 0 THEN all_edges[edgeid].to ELSE all_edges[edgeid].from
      v == IF fv0 < 0 THEN all_edges[edgeid].from ELSE all_edges[edgeid].to
      fv == IF fv0 < 0 THEN -fv0 ELSE fv0
  IN IF ev.addition /\ enabled[edgeid]
     THEN [e EXCEPT !.added_Edges = TRUE, !.edge_enabled[edgeid] = TRUE]
     ELSE IF ~ev.addition /\ ~enabled[edgeid]
     THEN IF fv0 = 0 THEN ZeroFlowDeletion(e, edgeid)
          ELSE RepairDeletion(
                 maxFlow_residual([e EXCEPT !.edge_enabled[edgeid] = FALSE],
                                  u, v, fv),
                 edgeid, u, v, fv, s, t)
     ELSE e

\* a replay of the newest event only
ReplayNewestOnly(e, i, s, t) ==
  IF i >= Len(history) THEN e
  ELSE ReplayEvent(e, history[Len(history)], s, t)

\* the replay of ev, from the engine e to the engine e2, changed nothing but
\* the entry of ev's edge in edge_enabled, and ran no search
PureClear(e, e2, ev) ==
  /\ \A id \in EdgeIds : e2.F[id] = e.F[id]
  /\ e2.f = e.f
  /\ e2.needsReflow = e.needsReflow
  /\ e2.added_Edges = e.added_Edges
  /\ e2.bfs = e.bfs
  /\ e2.M = e.M /\ e2.prev = e.prev
  /\ \A id \in EdgeIds \ {ev.id} : e2.edge_enabled[id] = e.edge_enabled[id]

\* what the replay of ev is seen to do, e being the engine before it and e2
\* the engine after it: zeroDeletions counts the replayed deletions of edges
\* with F = 0, pureClears records that each of them was a pure clear
Observed(e, e2, ev) ==
  IF ~ev.addition /\ ~enabled[ev.id] /\ e.F[ev.id] = 0
  THEN IF PureClear(e, e2, ev)
       THEN [e2 EXCEPT !.zeroDeletions = @ + 1]
       ELSE [e2 EXCEPT !.zeroDeletions = @ + 1, !.pureClears = FALSE]
  ELSE e2

\* for (int i = history_qhead; i < g.history.size(); i++)
RECURSIVE Replay(_, _, _, _)
Replay(e, i, s, t) ==
  IF i >= Len(history) THEN e
  ELSE Replay(Observed(e, ReplayEvent(e, history[i + 1], s, t), history[i + 1]),
              i + 1, s, t)

RECURSIVE SumF(_, _, _)
SumF(Fl, en, ids) ==
  IF ids = << >> THEN 0
  ELSE (IF en[Head(ids)] THEN Fl[Head(ids)] ELSE 0) + SumF(Fl, en, Tail(ids))

\* a call that keeps the f it had after a repair over the arc s -> t
ReflowSkipped(e, s) == e

\* "recompute the s-t flow": f = sum of F over the enabled edges leaving s
Reflow(e, s) ==
  IF e.needsReflow THEN [e EXCEPT !.f = SumF(e.F, e.edge_enabled, incident(s))]
  ELSE e

\* a reset that keeps the edge_enabled it had
StructuralResetStaleEnabled(e, s, t) ==
  LET e0 == [e EXCEPT !.F = [id \in EdgeIds |-> 0],
                      !.f = 0,
                      !.prev = [[n \in Nodes |-> [e.prev[n] EXCEPT !.from = -1]]
                                   EXCEPT ![s].from = -2],
                      !.M = [[n \in Nodes |-> 0] EXCEPT ![s] = INF]]
  IN maxFlow_p(e0, s, t)

\* the branch "last_modification<=0 || g.historyclears!=last_history_clear
\* || g.changed()"
StructuralReset(e, s, t) ==
  LET e0 == [e EXCEPT !.F = [id \in EdgeIds |-> 0],
                      !.f = 0,
                      !.prev = [[n \in Nodes |-> [e.prev[n] EXCEPT !.from = -1]]
                                   EXCEPT ![s].from = -2],
                      !.M = [[n \in Nodes |-> 0] EXCEPT ![s] = INF],
                      !.edge_enabled = [id \in EdgeIds |-> enabled[id]]]
  IN maxFlow_p(e0, s, t)

CacheHit == last_modification > 0 /\ modifications = last_modification
NeedsReset == last_modification <= 0 \/ historyclears # last_history_clear \/ changed

\* "if (added_Edges) f = maxFlow_p(s, t)"
AugmentAdded(e, s, t) == IF e.added_Edges THEN maxFlow_p(e, s, t) ELSE e

\* "curflow = f; return f" of the branch taken
MaxFlowResult(e, path) == [e |-> e, ret |-> e.f, path |-> path]

\* const Weight maxFlow(int s, int t): the engine after the call (e), the
\* value returned (ret) and the path taken
maxFlow(s, t) ==
  IF CacheHit
  THEN [e |-> Engine, ret |-> curflow, path |-> "cache"]
  ELSE MaxFlowResult(
         AugmentAdded(
           Reflow(Replay(IF NeedsReset THEN StructuralReset(Engine, s, t)
                         ELSE Engine,
                         history_qhead, s, t),
                  s),
           s, t),
         IF NeedsReset THEN "reset" ELSE "incremental")

\* what a call leaves for the caller to see: the value returned, the branch
\* taken, the searches run, the graph's edge status at the call (genabled),
\* whether the graph was unmodified since the stamp of the call before
\* (unmodified), that call's value (prevret), and whether the call left F,
\* edge_enabled, f, curflow and the stamps as they were (frame), and the
\* number of history events the call replayed
Outcome(op, s, t, r, entry) ==
  [op |-> op, s |-> s, t |-> t, ret |-> r.ret, path |-> r.path,
   bfs |-> r.e.bfs, augOK |-> r.e.augOK, stuck |-> r.e.stuck,
   repairs |-> r.e.repairs, needsReflow |-> r.e.needsReflow,
   zeroDeletions |-> r.e.zeroDeletions, pureClears |-> r.e.pureClears,
   foundFrom |-> r.e.foundFrom, bottleneckOK |-> r.e.bottleneckOK,
   added_Edges |-> r.e.added_Edges, genabled |-> enabled, entry |-> entry,
   unmodified |-> res.op # "none" /\ modifications = last_modification,
   samepair |-> res.op = "none" \/ (res.samepair /\ res.s = s /\ res.t = t),
   prevret |-> res.ret,
   replayed |-> IF r.path = "cache" \/ history_qhead >= Len(history) THEN 0
                ELSE Len(history) - history_qhead,
   frame |-> /\ r.e.F = F
             /\ r.e.edge_enabled = edge_enabled
             /\ r.e.f = f
             /\ \/ r.path = "cache"
                \/ /\ r.e.f = curflow
                   /\ modifications = last_modification
                   /\ deletions = last_deletion
                   /\ additions = last_addition
                   /\ Len(history) = history_qhead
                   /\ historyclears = last_history_clear]

\* the assignments of maxFlow to the engine's fields
EngineAfter(r) ==
  /\ F' = r.e.F
  /\ M' = r.e.M
  /\ prev' = r.e.prev
  /\ f' = r.e.f
  /\ edge_enabled' = r.e.edge_enabled
  /\ IF r.path = "cache"
     THEN UNCHANGED <<curflow, last_modification, last_deletion, last_addition,
                      history_qhead, last_history_clear>>
     ELSE /\ curflow' = r.e.f
          /\ last_modification' = modifications
          /\ last_deletion' = deletions
          /\ last_addition' = additions
          /\ history_qhead' = Len(history)
          /\ last_history_clear' = historyclears

\* ------------------------------------------------------------------------
\* EdmondsKarpDynamic::minCut
\* ------------------------------------------------------------------------
MaxFlowEdge(u, v, id) == [u |-> u, v |-> v, id |-> id]

\* the loop over g.incident(u,i) of minCut; w = [Q, seen, cut]
RECURSIVE CutIncident(_, _, _, _)
CutIncident(w, u, Fl, ids) ==
  IF ids = << >> THEN w
  ELSE LET id == Head(ids)
           v == all_edges[id].to
       IN IF ~enabled[id] THEN CutIncident(w, u, Fl, Tail(ids))
          ELSE IF capacity[id] - Fl[id] = 0
          THEN CutIncident([w EXCEPT !.cut = Append(@, MaxFlowEdge(u, v, id))],
                           u, Fl, Tail(ids))
          ELSE IF ~w.seen[v]
          THEN CutIncident([w EXCEPT !.Q = Append(@, v), !.seen[v] = TRUE],
                           u, Fl, Tail(ids))
          ELSE CutIncident(w, u, Fl, Tail(ids))

\* the loop over g.incoming(u,i) of minCut
RECURSIVE CutIncoming(_, _, _, _)
CutIncoming(w, u, Fl, ids) ==
  IF ids = << >> THEN w
  ELSE LET id == Head(ids)
           v == all_edges[id].from
       IN IF ~enabled[id] THEN CutIncoming(w, u, Fl, Tail(ids))
          ELSE IF Fl[id] = 0 THEN CutIncoming(w, u, Fl, Tail(ids))
          ELSE IF ~w.seen[v]
          THEN CutIncoming([w EXCEPT !.Q = Append(@, v), !.seen[v] = TRUE],
                           u, Fl, Tail(ids))
          ELSE CutIncoming(w, u, Fl, Tail(ids))

RECURSIVE CutLoop(_, _, _)
CutLoop(w, j, Fl) ==
  IF j > Len(w.Q) THEN w
  ELSE LET u == w.Q[j]
           w1 == CutIncident(w, u, Fl, incident(u))
           w2 == CutIncoming(w1, u, Fl, incoming(u))
       IN CutLoop(w2, j + 1, Fl)

\* "keep only the edges from a seen vertex to an unseen vertex"
CutKeep(w) == SelectSeq(w.cut, LAMBDA c : ~w.seen[c.v] /\ w.seen[c.u])

\* a cut explored on the residual graph of the zero flow
minCutOfNoFlow(s, t, cut0, r) ==
  CutKeep(CutLoop([Q |-> <<s>>, seen |-> [n \in Nodes |-> n = s], cut |-> cut0],
                  1, [id \in EdgeIds |-> 0]))

\* const Weight minCut(int s, int t, std::vector<MaxFlowEdge> & cut), given
\* the result r of its maxFlow(s,t): the cut vector on return
minCut(s, t, cut0, r) ==
  CutKeep(CutLoop([Q |-> <<s>>, seen |-> [n \in Nodes |-> n = s], cut |-> cut0],
                  1, r.e.F))

\* ------------------------------------------------------------------------
\* DynamicGraph: the mutations between calls
\* ------------------------------------------------------------------------
\* enableEdge(id)
EnableEdge(id) ==
  /\ ~enabled[id]
  /\ modifications < budget
  /\ enabled' = [enabled EXCEPT ![id] = TRUE]
  /\ modifications' = modifications + 1
  /\ additions' = modifications + 1
  /\ history' = Append(history, [id |-> id, addition |-> TRUE])
  /\ UNCHANGED <<deletions, historyclears, changed, evars, pairs, budget, reuse, cut, res, calls, covervars>>

\* disableEdge(id)
DisableEdge(id) ==
  /\ enabled[id]
  /\ modifications < budget
  /\ enabled' = [enabled EXCEPT ![id] = FALSE]
  /\ modifications' = modifications + 1
  /\ deletions' = modifications + 1
  /\ history' = Append(history, [id |-> id, addition |-> FALSE])
  /\ UNCHANGED <<additions, historyclears, changed, evars, pairs, budget, reuse, cut, res, calls, covervars>>

\* clearHistory()
ClearHistory ==
  /\ historyclears < MaxClears
  /\ history' = << >>
  /\ historyclears' = historyclears + 1
  /\ UNCHANGED <<enabled, modifications, additions, deletions, changed,
                 evars, pairs, budget, reuse, cut, res, calls, covervars>>

\* clearChanged()
ClearChanged ==
  /\ changed
  /\ changed' = FALSE
  /\ UNCHANGED <<enabled, history, modifications, additions, deletions,
                 historyclears, evars, pairs, budget, reuse, cut, res, calls, covervars>>

\* markChanged()
MarkChanged ==
  /\ ~changed
  /\ changed' = TRUE
  /\ UNCHANGED <<enabled, history, modifications, additions, deletions,
                 historyclears, evars, pairs, budget, reuse, cut, res, calls, covervars>>

\* ------------------------------------------------------------------------
\* The calls
\* ------------------------------------------------------------------------
\* the record of a call: the history of the graph at the call, where the
\* call before had read it up to, the branch taken, the deletions repaired,
\* the value returned and the cut vector at the return
Logged(op, r, c) ==
  IF calls.on
  THEN [calls EXCEPT !.made = @ \cup {[op |-> op, hist |-> history,
                                       qhead |-> history_qhead,
                                       path |-> r.path,
                                       repairs |-> r.e.repairs,
                                       ret |-> r.ret, cut |-> c]}]
  ELSE calls

MaxFlowReturn(s, t, r) ==
  /\ EngineAfter(r)
  /\ res' = Outcome("maxFlow", s, t, r, << >>)
  /\ calls' = Logged("maxFlow", r, << >>)
  /\ UNCHANGED <<gvars, pairs, budget, reuse, cut, covervars>>

MaxFlowCall(s, t) == MaxFlowReturn(s, t, maxFlow(s, t))

MinCutReturn(s, t, cut0, r) ==
  /\ EngineAfter(r)
  /\ cut' = minCut(s, t, cut0, r)
  /\ res' = Outcome("minCut", s, t, r, cut0)
  /\ calls' = Logged("minCut", r, minCut(s, t, cut0, r))
  /\ UNCHANGED <<gvars, pairs, budget, reuse, covervars>>

\* the caller passes an empty vector (fresh) or the vector of its last call
MinCutCall(s, t, fresh) ==
  /\ fresh \/ (reuse /\ Len(cut) \in 1 .. MaxCutEntry)
  /\ MinCutReturn(s, t, IF fresh THEN << >> ELSE cut, maxFlow(s, t))

NoOutcome ==
  [op |-> "none", s |-> 0, t |-> 0, ret |-> 0, path |-> "none", bfs |-> 0,
   augOK |-> TRUE, stuck |-> FALSE, repairs |-> 0, needsReflow |-> FALSE,
   zeroDeletions |-> 0, pureClears |-> TRUE,
   foundFrom |-> {}, bottleneckOK |-> TRUE,
   added_Edges |-> FALSE, genabled |-> [id \in EdgeIds |-> FALSE],
   entry |-> << >>, unmodified |-> FALSE, samepair |-> TRUE, prevret |-> 0,
   replayed |-> 0, frame |-> FALSE]

\* a caller that keeps no record of its calls
NoRecord == [on |-> FALSE, made |-> {}]

\* the graph as built: every edge enabled, no mutation yet
InitGraph ==
  /\ enabled = [id \in EdgeIds |-> TRUE]
  /\ history = << >>
  /\ modifications = 0
  /\ additions = 0
  /\ deletions = 0
  /\ historyclears = 0
  /\ changed = TRUE

\* EdmondsKarpDynamic(DynamicGraph& _g, Capacity & cap)
InitEngine ==
  /\ f = 0
  /\ F = [id \in EdgeIds |-> 0]
  /\ curflow = 0
  /\ last_modification = -1
  /\ last_deletion = -1
  /\ last_addition = -1
  /\ history_qhead = 0
  /\ last_history_clear = -1
  /\ prev = [n \in Nodes |-> LocalEdge(-1, -1, FALSE)]
  /\ M = [n \in Nodes |-> 0]
  /\ edge_enabled = [id \in EdgeIds |-> FALSE]

\* no Solver and no Cover at work
CoverIdle ==
  /\ clauses = << >>
  /\ assigns = << >>
  /\ trail = << >>
  /\ watches = << >>
  /\ opt_fast_partial = FALSE
  /\ include = << >>
  /\ subset = << >>
  /\ in_cover = << >>
  /\ cover = << >>
  /\ excludes = 0
  /\ cres = [mode |-> "none"]

Init ==
  /\ CoverIdle
  /\ InitGraph
  /\ InitEngine
  /\ pairs = {FixedPair}
  /\ budget = MaxMods
  /\ reuse = FALSE
  /\ cut = << >>
  /\ res = NoOutcome
  /\ calls = NoRecord

\* a caller that hands minCut the vector its last minCut filled
InitReuse ==
  /\ CoverIdle
  /\ InitGraph
  /\ InitEngine
  /\ pairs = {FixedPair}
  /\ budget = MaxModsReuse
  /\ reuse = TRUE
  /\ cut = << >>
  /\ res = NoOutcome
  /\ calls = NoRecord

InitST ==
  /\ CoverIdle
  /\ InitGraph
  /\ InitEngine
  /\ pairs = STPairs
  /\ budget = MaxModsST
  /\ reuse = FALSE
  /\ cut = << >>
  /\ res = NoOutcome
  /\ calls = NoRecord

Next ==
  \/ \E id \in EdgeIds : EnableEdge(id)
  \/ \E id \in EdgeIds : DisableEdge(id)
  \/ ClearHistory
  \/ ClearChanged
  \/ MarkChanged
  \/ \E p \in pairs : MaxFlowCall(p[1], p[2])
  \/ \E p \in pairs, fresh \in BOOLEAN : MinCutCall(p[1], p[2], fresh)

\* the graph of the documented flow scenarios: the edges 0 .. 4, the edges 5
\* and 6 never enabled
ScenarioEdges == 0 .. 4

\* the value of g.modifications on a graph no edge of which has been
\* enabled or disabled since it was built: 0, or what building it counted
BuiltModifications == {0, 1}

\* the scenario graph as built, and a caller that records its calls
InitScenario ==
  /\ CoverIdle
  /\ enabled = [id \in EdgeIds |-> id \in ScenarioEdges]
  /\ history = << >>
  /\ modifications \in BuiltModifications
  /\ additions = modifications
  /\ deletions = 0
  /\ historyclears = 0
  /\ changed = TRUE
  /\ InitEngine
  /\ pairs = {FixedPair}
  /\ budget = modifications + MaxModsScenario
  /\ reuse = FALSE
  /\ cut = << >>
  /\ res = NoOutcome
  /\ calls = [on |-> TRUE, made |-> {}]

\* the edges the scenarios disable and enable: 0->2 and 1->3
ScenarioMutable == {1, 3}

NextScenario ==
  \/ \E id \in ScenarioMutable : EnableEdge(id)
  \/ \E id \in ScenarioMutable : DisableEdge(id)
  \/ ClearChanged
  \/ MaxFlowCall(FixedPair[1], FixedPair[2])
  \/ MinCutCall(FixedPair[1], FixedPair[2], TRUE)

\* a caller that keeps to one (s,t)
Spec == Init /\ [][Next]_vars
\* the caller of the documented flow scenarios
SpecScenario == InitScenario /\ [][NextScenario]_vars
\* a caller that passes different (s,t) pairs
SpecST == InitST /\ [][Next]_vars
\* a caller that keeps to one (s,t) and to one cut vector
SpecReuse == InitReuse /\ [][Next]_vars

\* ------------------------------------------------------------------------
\* Reference notions the properties are stated with
\* ------------------------------------------------------------------------
RECURSIVE SumCapacity(_)
SumCapacity(ids) ==
  IF ids = {} THEN 0
  ELSE LET id == CHOOSE x \in ids : TRUE
       IN capacity[id] + SumCapacity(ids \ {id})

\* the capacity of the cut (S, Nodes \ S) of the subgraph of the edges en
CutCapacity(S, en) ==
  SumCapacity({id \in EdgeIds : en[id] /\ all_edges[id].from \in S
                                       /\ all_edges[id].to \notin S})

\* the maximum s-t flow of the subgraph of the edges en, as the capacity of
\* a minimum cut
MaxFlowRef(s, t, en) ==
  LET cuts == {S \in SUBSET Nodes : s \in S /\ t \notin S}
      Smin == CHOOSE S \in cuts : \A S2 \in cuts : CutCapacity(S, en) <= CutCapacity(S2, en)
  IN CutCapacity(Smin, en)

\* the capacities of the edges of a cut vector, summed
RECURSIVE SumCutCapacity(_)
SumCutCapacity(c) ==
  IF c = << >> THEN 0 ELSE capacity[Head(c).id] + SumCutCapacity(Tail(c))

Called == res.op # "none"

\* F conserves flow at every node but s and t, over the edges en
Conserves(Fl, en, s, t) ==
  \A u \in Nodes \ {s, t} : SumF(Fl, en, incident(u)) = SumF(Fl, en, incoming(u))

\* F respects the capacities of the edges en and is 0 elsewhere
RespectsCapacity(Fl, en) ==
  \A id \in EdgeIds : IF en[id] THEN 0 <= Fl[id] /\ Fl[id] <= capacity[id]
                      ELSE Fl[id] = 0

\* the value of F: what leaves s minus what enters it
FlowValue(Fl, en, s) == SumF(Fl, en, incident(s)) - SumF(Fl, en, incoming(s))

IsFlowOfValue(Fl, en, s, t, val) ==
  /\ RespectsCapacity(Fl, en)
  /\ Conserves(Fl, en, s, t)
  /\ FlowValue(Fl, en, s) = val

\* ------------------------------------------------------------------------
\* Properties
\* ------------------------------------------------------------------------
\* C1: with a fixed (s,t), every maxFlow call returns the maximum flow of
\* the currently enabled subgraph, whatever enables, disables and calls
\* came before.
IncrementalEquivalence ==
  (Called /\ res.samepair) => res.ret = MaxFlowRef(res.s, res.t, res.genabled)

\* C2: a call that takes the full-reinitialisation branch returns the
\* maximum flow of the enabled subgraph and leaves F a flow of that value,
\* whatever history entries it replays afterwards.
ResetOptimal ==
  (Called /\ res.path = "reset") =>
     /\ res.ret = MaxFlowRef(res.s, res.t, res.genabled)
     /\ IsFlowOfValue(F, res.genabled, res.s, res.t, res.ret)

ResetReplayedWitness ==
  /\ Called /\ res.path = "reset" /\ res.replayed >= 2 /\ res.added_Edges
  /\ res.ret > 0
  /\ \E id \in EdgeIds : ~res.genabled[id]

\* C3: after every maxFlow call, F conserves flow at every node other than
\* s and t, over the enabled edges.
FlowConservation ==
  Called => Conserves(F, res.genabled, res.s, res.t)

RepairWitness ==
  /\ Called /\ res.path = "incremental" /\ res.repairs >= 1 /\ res.needsReflow
  /\ res.ret > 0
  /\ \E u \in Nodes \ {res.s, res.t} : SumF(F, res.genabled, incident(u)) > 0

\* C4: after every maxFlow call F is within the capacities on enabled edges
\* and 0 on disabled ones, and no augmentation step took an edge out of
\* 0 <= F[id] <= capacity[id].
CapacityRespect ==
  Called => RespectsCapacity(F, res.genabled) /\ res.augOK

AugmentedWitness ==
  /\ Called /\ res.path = "incremental" /\ res.repairs >= 1 /\ res.added_Edges
  /\ res.bfs >= 3
  /\ \E id \in EdgeIds : res.genabled[id] /\ F[id] = capacity[id]
  /\ \E id \in EdgeIds : ~res.genabled[id]

\* C5: minCut with an empty cut returns the maximum flow, every cut edge is
\* saturated, and the capacities of the cut edges sum to the value returned.
MaxFlowMinCut ==
  (res.op = "minCut" /\ res.entry = << >>) =>
     /\ res.ret = MaxFlowRef(res.s, res.t, res.genabled)
     /\ \A i \in 1 .. Len(cut) : F[cut[i].id] = capacity[cut[i].id]
     /\ SumCutCapacity(cut) = res.ret

\* C6: a call on a graph whose modifications counter equals the stamp of
\* the call before returns that call's value, runs no search, and leaves F,
\* edge_enabled, f, curflow and the stamps unchanged.
CacheHitIdempotent ==
  (Called /\ res.unmodified) => res.ret = res.prevret /\ res.bfs = 0 /\ res.frame

\* C7: every call returns the maximum flow between the s and t passed to it.
ReturnsMaxFlowOfItsPair ==
  Called => res.ret = MaxFlowRef(res.s, res.t, res.genabled)

\* every walk along prev arrives at its start node and every loop of
\* augmentations ends
WalksArrive == ~res.stuck

\* ------------------------------------------------------------------------
\* The documented flow scenarios
\* ------------------------------------------------------------------------
DisableEvent(id) == [id |-> id, addition |-> FALSE]
EnableEvent(id) == [id |-> id, addition |-> TRUE]

\* the recorded maxFlow calls made when the history of the graph was h
MaxFlowAt(h) == {c \in calls.made : c.op = "maxFlow" /\ c.hist = h}

\* the first call after the last event of h: the call before it, if any,
\* had read the history up to n events
FirstSince(c, n) == c.qhead <= n

\* C15: on the scenario graph with its five edges enabled maxFlow(0,3)
\* returns 5, and after that call and the disabling of edge 1->3 the next
\* maxFlow(0,3) returns 4.
FlowScenarioA ==
  /\ \A c \in MaxFlowAt(<< >>) : c.ret = 5
  /\ MaxFlowAt(<< >>) # {} =>
        \A c \in MaxFlowAt(<<DisableEvent(3)>>) : FirstSince(c, 0) => c.ret = 4

\* C15 as the code has it: the first call returns 5, and after the disabling
\* of edge 1->3 the next maxFlow(0,3) returns 3, the capacity of the one
\* edge 2->3 left into node 3.
FlowScenarioAThree ==
  /\ \A c \in MaxFlowAt(<< >>) : c.ret = 5
  /\ MaxFlowAt(<< >>) # {} =>
        \A c \in MaxFlowAt(<<DisableEvent(3)>>) : FirstSince(c, 0) => c.ret = 3

FlowScenarioAWitness ==
  /\ \E c \in MaxFlowAt(<< >>) : c.ret = 5
  /\ \E c \in MaxFlowAt(<<DisableEvent(3)>>) :
        /\ FirstSince(c, 0)
        /\ c.path = "incremental"
        /\ c.repairs = 1
        /\ c.ret = 3
  /\ res.op = "maxFlow" /\ res.needsReflow
  /\ history = <<DisableEvent(3)>>

\* the calls of scenario A have been made: one on the graph as built, one
\* after the disabling of edge 1->3
ScenarioAMade ==
  MaxFlowAt(<< >>) # {} /\ MaxFlowAt(<<DisableEvent(3)>>) # {}

\* the history of scenario B: 1->3 disabled, enabled again, 0->2 disabled
ScenarioBHistory == <<DisableEvent(3), EnableEvent(3), DisableEvent(1)>>

\* C16: after the calls of scenario A, the enabling of edge 1->3 and the
\* disabling of edge 0->2, the next maxFlow(0,3) returns 3, whether or not
\* a maxFlow(0,3) call was made between the two mutations.
FlowScenarioB ==
  ScenarioAMade =>
     \A c \in MaxFlowAt(ScenarioBHistory) : FirstSince(c, 2) => c.ret = 3

FlowScenarioBWitness ==
  /\ ScenarioAMade
  /\ MaxFlowAt(<<DisableEvent(3), EnableEvent(3)>>) = {}
  /\ \E c \in MaxFlowAt(ScenarioBHistory) :
        /\ c.qhead = 1
        /\ c.path = "incremental"
        /\ c.repairs = 1
        /\ c.ret = 3
  /\ history = ScenarioBHistory
  /\ res.op = "maxFlow" /\ res.added_Edges

\* the recorded minCut calls made when the history of the graph was h
MinCutAt(h) == {c \in calls.made : c.op = "minCut" /\ c.hist = h}

\* the ids of the edges of a cut vector
CutIds(c) == {c[i].id : i \in 1 .. Len(c)}

\* C17: on the scenario graph as built, minCut(0,3,cut) with an empty cut
\* returns 5 and fills cut with exactly the edges 0->2, 1->2 and 1->3.
FlowScenarioC ==
  \A c \in MinCutAt(<< >>) :
     c.ret = 5 /\ Len(c.cut) = 3 /\ CutIds(c.cut) = {1, 2, 3}

\* C17 as the code has it: the call returns 5 and fills cut with exactly the
\* two saturated edges that leave the source, 0->1 and 0->2, in this order.
FlowScenarioCSourceSide ==
  \A c \in MinCutAt(<< >>) :
     c.ret = 5 /\ c.cut = <<MaxFlowEdge(0, 1, 0), MaxFlowEdge(0, 2, 1)>>

FlowScenarioCWitness ==
  /\ history = << >>
  /\ res.op = "minCut" /\ res.entry = << >> /\ res.ret = 5
  /\ cut = <<MaxFlowEdge(0, 1, 0), MaxFlowEdge(0, 2, 1)>>
  /\ MinCutAt(<< >>) # {}
  /\ F = [id \in EdgeIds |-> IF id \in ScenarioEdges THEN capacity[id] ELSE 0]

\* ------------------------------------------------------------------------
\* Properties of the incremental branch
\* ------------------------------------------------------------------------
\* C18: after every call that replayed at least one deletion of an edge that
\* carried flow, no enabled edge entering s carries positive flow, the value
\* returned is the sum of F over the enabled edges leaving s, and it is the
\* sum of F over the enabled edges entering t.
SourceSideAccounting ==
  (Called /\ res.path # "cache" /\ res.repairs >= 1) =>
     /\ \A i \in 1 .. Len(incoming(res.s)) :
           edge_enabled[incoming(res.s)[i]] => F[incoming(res.s)[i]] <= 0
     /\ res.ret = SumF(F, edge_enabled, incident(res.s))
     /\ res.ret = SumF(F, edge_enabled, incoming(res.t))

\* C19: after every call that does not take the cache-hit path,
\* edge_enabled has an entry for every edge of the graph and
\* edge_enabled[i] = g.edgeEnabled(i) for every edge i, whatever enables and
\* disables the history holds since the call before.
EnabledMirror ==
  (Called /\ res.path # "cache") =>
     /\ DOMAIN edge_enabled = EdgeIds
     /\ \A id \in EdgeIds : edge_enabled[id] = res.genabled[id]

EnabledMirrorWitness ==
  /\ Called /\ res.path = "incremental" /\ res.replayed = 2
  /\ Len(history) = 3
  /\ history[2].id = history[3].id
  /\ history[1].id # history[2].id
  /\ \A id \in EdgeIds : edge_enabled[id] = res.genabled[id]

\* C20: when the incremental branch replays the disabling of an edge e with
\* F[e] = 0, only edge_enabled[e] changes: F on every edge, f and
\* needsReflow are as they were before the event, and no search is run for
\* it.
ZeroFlowDeletionFrame ==
  (Called /\ res.path = "incremental") => res.pureClears

ZeroFlowDeletionFrameWitness ==
  /\ Called /\ res.path = "incremental"
  /\ res.zeroDeletions >= 1
  /\ res.repairs >= 1
  /\ res.pureClears
  /\ res.ret > 0

\* C21: every search that finds a path returns the least residual capacity
\* along the chain of prev from the target back to the node the search
\* started at, whether it started at s or at the endpoint u of a deleted
\* edge (M at the start node never lowers the value returned); the amount
\* an augmentation adds is BoundedM of the value returned, so it is the least
\* of that bottleneck and bound - the amount augmented so far.
PathBottleneckReturned ==
  Called => res.bottleneckOK

\* the nodes reachable from the set S in the residual graph of Fl over the
\* edges en: forward over an edge with capacity left, backward over an edge
\* that carries flow
RECURSIVE ResidualReach(_, _, _)
ResidualReach(S, Fl, en) ==
  LET S2 == S \cup {all_edges[id].to : id \in {x \in EdgeIds :
                        en[x] /\ all_edges[x].from \in S
                              /\ capacity[x] - Fl[x] # 0}}
               \cup {all_edges[id].from : id \in {x \in EdgeIds :
                        en[x] /\ all_edges[x].to \in S /\ Fl[x] # 0}}
  IN IF S2 = S THEN S ELSE ResidualReach(S2, Fl, en)

\* the saturated enabled edges from a reachable node to an unreachable one
SaturatedBoundary(s, Fl, en) ==
  {id \in EdgeIds : /\ en[id]
                     /\ all_edges[id].from \in ResidualReach({s}, Fl, en)
                     /\ all_edges[id].to \notin ResidualReach({s}, Fl, en)
                     /\ capacity[id] - Fl[id] = 0}

\* C22: on return from minCut(s,t,cut), whatever cut held on entry, cut
\* holds exactly one record (u,v,id) for each enabled edge with u reachable
\* from s in the residual graph, v not reachable and capacity[id] - F[id] = 0,
\* and nothing else.
CutIsSaturatedBoundary ==
  res.op = "minCut" =>
     /\ {cut[i] : i \in 1 .. Len(cut)} =
          {MaxFlowEdge(all_edges[id].from, all_edges[id].to, id) :
             id \in SaturatedBoundary(res.s, F, res.genabled)}
     /\ Len(cut) = Cardinality(SaturatedBoundary(res.s, F, res.genabled))

\* ========================================================================
\* Cover (src/Cover.h) on a Solver
\* ========================================================================
\* number of excludeFromCover calls of a behaviour
MaxExcludes == 2

\* S.nVars(); variables are 1 .. NumVars, the literal of variable v is v or -v
NumVars == 4
Vars == 1 .. NumVars
Lits == {l \in (-NumVars) .. NumVars : l # 0}
var(l) == IF l < 0 THEN -l ELSE l
mkLit(v) == v

l_True == "l_True"
l_False == "l_False"
l_Undef == "l_Undef"

\* the clauses a database is drawn from, in the order S.clauses has them
ClausePool ==
  << <<1, 2>>, <<1, 3>>, <<2, 4>>, <<3, 4>>, <<-1, 3>>, <<2, 3>>,
     <<3, -2, 1>>, <<-3, 4, 2>> >>

\* the value of literal l under the assignment a
ValueIn(a, l) ==
  IF a[var(l)] = l_Undef THEN l_Undef
  ELSE IF (l > 0) = (a[var(l)] = l_True) THEN l_True
  ELSE l_False

\* S.value(l)
value(l) == ValueIn(assigns, l)

SeqLits(c) == {c[q] : q \in 1 .. Len(c)}

\* the clause database of the pool entries I
DBOf(I) == SelectSeq(ClausePool, LAMBDA c : c \in {ClausePool[i] : i \in I})

\* the databases: (1 2)(-1 3)(2 3); (1 2); (1 2)(1 3)(2 4)(3 4);
\* (3 -2 1); (3 -2 1)(-3 4 2); (1 2)(3 -2 1); (1 2)(1 3)(3 4)
PoolChoices == {{1, 5, 6}, {1}, {1, 2, 3, 4}, {7}, {7, 8}, {1, 7}, {1, 2, 4}}

\* the variables a Solver may have left without a value
UndefVars == {NumVars}

\* unit propagation at level 0: the literals T and what the clauses db make
\* of them
RECURSIVE UnitClosure(_, _)
UnitClosure(db, T) ==
  LET more == {l \in Lits \ T :
                 \E i \in 1 .. Len(db) :
                    /\ l \in SeqLits(db[i])
                    /\ \A m \in SeqLits(db[i]) \ {l} : (-m) \in T}
  IN IF more = {} THEN T ELSE UnitClosure(db, T \cup more)

\* a set of literals as a sequence, lowest variable first
RECURSIVE LitSeq(_)
LitSeq(T) ==
  IF T = {} THEN << >>
  ELSE LET l == CHOOSE x \in T : \A y \in T : var(x) <= var(y)
       IN <<l>> \o LitSeq(T \ {l})

\* the blockers (b0 of the watcher of c[0], b1 of the watcher of c[1]) a
\* clause can have under the assignment a: each is another literal of the
\* clause, one of them at least is the other watched literal, and a watched
\* literal that is false has a true blocker or a true other watched literal
BlockerChoices(c, a) ==
  {b \in SeqLits(c) \X SeqLits(c) :
     /\ b[1] # c[1] /\ b[2] # c[2]
     /\ b[1] = c[2] \/ b[2] = c[1]
     /\ ValueIn(a, c[1]) = l_False =>
          ValueIn(a, b[1]) = l_True \/ ValueIn(a, c[2]) = l_True
     /\ ValueIn(a, c[2]) = l_False =>
          ValueIn(a, b[2]) = l_True \/ ValueIn(a, c[1]) = l_True}

\* the blockers of the clauses db, clause by clause
RECURSIVE BlockerSeqs(_, _)
BlockerSeqs(db, a) ==
  IF db = << >> THEN {<< >>}
  ELSE {<<b>> \o r : b \in BlockerChoices(Head(db), a),
                     r \in BlockerSeqs(Tail(db), a)}

\* attachClause: the watchers of the clauses db[i ..] in the list of literal l
RECURSIVE WatchersOf(_, _, _, _)
WatchersOf(db, blk, l, i) ==
  IF i > Len(db) THEN << >>
  ELSE (IF db[i][1] = -l THEN <<[cref |-> i, blocker |-> blk[i][1]]>>
        ELSE IF db[i][2] = -l THEN <<[cref |-> i, blocker |-> blk[i][2]]>>
        ELSE << >>) \o WatchersOf(db, blk, l, i + 1)

\* a Solver that has found a model: every clause has a true literal, a
\* variable of no clause has its default value, the literals of level 0 are
\* closed under unit propagation
InitSolver ==
  /\ \E I \in PoolChoices : clauses = DBOf(I)
  /\ assigns \in [Vars -> {l_True, l_False, l_Undef}]
  /\ \A v \in Vars : assigns[v] = l_Undef => v \in UndefVars
  /\ \A v \in Vars :
        (\A i \in 1 .. Len(clauses) : v \notin {var(l) : l \in SeqLits(clauses[i])})
           => assigns[v] = l_False
  /\ \A i \in 1 .. Len(clauses) :
        \E l \in SeqLits(clauses[i]) : value(l) = l_True
  /\ \E seed \in SUBSET {l \in Lits : value(l) = l_True} :
        /\ Cardinality(seed) <= 1
        /\ trail = LitSeq(UnitClosure(clauses, seed))
  /\ \E blk \in BlockerSeqs(clauses, assigns) :
        watches = [l \in Lits |-> WatchersOf(clauses, blk, l, 1)]
  /\ opt_fast_partial \in BOOLEAN

\* ------------------------------------------------------------------------
\* Cover::getCover: the head of the call and the fast mode
\* ------------------------------------------------------------------------
lit_Undef == 0

\* a call that keeps the in_cover of the call before
WorkStaleInCover ==
  [cover |-> << >>, in_cover |-> in_cover, ok |-> TRUE,
   forced |-> 0, greedy |-> 0, pruned |-> 0, gain |-> TRUE, pastEnd |-> FALSE,
   coverCount |-> [i \in 1 .. Len(clauses) |-> 0],
   mVarsGreedyScore |-> [v \in Vars |-> 0],
   mVarsInUncCls |-> [v \in Vars |-> << >>],
   potentialCoverLits |-> << >>]

\* what a call works on: the caller's vector and in_cover after the clear,
\* the buffers of the exact mode after their clear; ok records that no
\* assert of the call has failed, forced, greedy and pruned count the
\* literals the first pass and the third pass pushed and the pruning removed,
\* gain records that every literal the third pass pushed had a clause of
\* cover count 0 in its list, pastEnd that the third pass came to read
\* potentialCoverLits at or beyond its size
Work ==
  [cover |-> << >>, in_cover |-> [v \in Vars |-> FALSE], ok |-> TRUE,
   forced |-> 0, greedy |-> 0, pruned |-> 0, gain |-> TRUE, pastEnd |-> FALSE,
   coverCount |-> [i \in 1 .. Len(clauses) |-> 0],
   mVarsGreedyScore |-> [v \in Vars |-> 0],
   mVarsInUncCls |-> [v \in Vars |-> << >>],
   potentialCoverLits |-> << >>]

\* "if(subset.size()==0)": subset is filled from include only when empty
BuildSubset ==
  IF subset = << >>
  THEN SelectSeq([v \in 1 .. NumVars |-> v], LAMBDA v : include[v])
  ELSE subset

\* the pass over the literals of level 0
RECURSIVE TrailPass(_, _)
TrailPass(w, i) ==
  IF i > Len(trail) THEN w
  ELSE IF include[var(trail[i])]
  THEN TrailPass([w EXCEPT !.ok = @ /\ ~w.in_cover[var(trail[i])]
                                    /\ value(trail[i]) # l_False,
                           !.in_cover[var(trail[i])] = TRUE,
                           !.cover = Append(@, trail[i])],
                 i + 1)
  ELSE TrailPass(w, i + 1)

\* "Lit p = mkLit(v); if(S.value(p)==l_False) p=~p"
TrueLit(v) == IF value(mkLit(v)) = l_False THEN -mkLit(v) ELSE mkLit(v)

\* "S.value(l) == l_True && (!include[var(l)] || in_cover[var(l)])"
CoveredBy(w, l) ==
  value(l) = l_True /\ (~include[var(l)] \/ w.in_cover[var(l)])

\* "Lit other_watcher=c[0]; if (c[0] == p) other_watcher=c[1]"
other_watcher(cr, p) ==
  IF clauses[cr][1] = p THEN clauses[cr][2] ELSE clauses[cr][1]

\* a scan that leaves a clause to its other watched literal when that is a
\* true literal of an included variable
RECURSIVE FastWatchersDeferring(_, _, _, _)
FastWatchersDeferring(w, v, ws, k) ==
  IF k > Len(ws) THEN w
  ELSE IF ws[k].blocker # lit_Undef /\ CoveredBy(w, ws[k].blocker)
  THEN FastWatchersDeferring(w, v, ws, k + 1)
  ELSE IF value(other_watcher(ws[k].cref, TrueLit(v))) = l_True
  THEN FastWatchersDeferring(w, v, ws, k + 1)
  ELSE [w EXCEPT !.in_cover[v] = TRUE, !.cover = Append(@, TrueLit(v))]

\* the loop over the watchers ws[k ..] of the true literal of v
RECURSIVE FastWatchers(_, _, _, _)
FastWatchers(w, v, ws, k) ==
  IF k > Len(ws) THEN w
  ELSE IF ws[k].blocker # lit_Undef /\ CoveredBy(w, ws[k].blocker)
  THEN FastWatchers(w, v, ws, k + 1)
  ELSE IF CoveredBy(w, other_watcher(ws[k].cref, TrueLit(v)))
  THEN FastWatchers(w, v, ws, k + 1)
  ELSE [w EXCEPT !.in_cover[v] = TRUE, !.cover = Append(@, TrueLit(v))]

\* one variable v = subset[j] of the fast scan
FastVar(w, v) ==
  IF w.in_cover[v] THEN [w EXCEPT !.ok = @ /\ include[v]]
  ELSE FastWatchers(
         [w EXCEPT !.ok = @ /\ include[v] /\ value(TrueLit(v)) = l_True],
         v, watches[-TrueLit(v)], 1)

\* "for(int j = 0;j<subset.size();j++)"
RECURSIVE FastScan(_, _, _)
FastScan(w, sub, j) ==
  IF j > Len(sub) THEN w
  ELSE FastScan(FastVar(w, sub[j]), sub, j + 1)

\* getCover with opt_fast_partial
getCoverFast == FastScan(TrailPass(Work, 1), BuildSubset, 1)

\* ------------------------------------------------------------------------
\* Cover::getCover: the exact mode
\* ------------------------------------------------------------------------
\* a first pass that skips the literals of excluded variables
RECURSIVE CountLitsSkipExcluded(_, _, _, _, _)
CountLitsSkipExcluded(c, q, lit1count, plit, satisfied) ==
  IF q > Len(c)
  THEN [lit1count |-> lit1count, plit |-> plit, satisfied |-> satisfied]
  ELSE IF value(c[q]) # l_False /\ include[var(c[q])]
  THEN IF lit1count # 0
       THEN [lit1count |-> lit1count + 1, plit |-> c[q],
             satisfied |-> satisfied \/ value(c[q]) = l_True]
       ELSE CountLitsSkipExcluded(c, q + 1, lit1count + 1, c[q],
                                  satisfied \/ value(c[q]) = l_True)
  ELSE CountLitsSkipExcluded(c, q + 1, lit1count, plit,
                             satisfied \/ value(c[q]) = l_True)

\* the loop over the literals c[q ..] of the first pass, up to its break:
\* lit1count, plit and satisfied as the loop leaves them
RECURSIVE CountLits(_, _, _, _, _)
CountLits(c, q, lit1count, plit, satisfied) ==
  IF q > Len(c)
  THEN [lit1count |-> lit1count, plit |-> plit, satisfied |-> satisfied]
  ELSE IF value(c[q]) # l_False
  THEN IF ~include[var(c[q])]
       THEN [lit1count |-> 0, plit |-> plit,
             satisfied |-> satisfied \/ value(c[q]) = l_True]
       ELSE IF lit1count # 0
       THEN [lit1count |-> lit1count + 1, plit |-> c[q],
             satisfied |-> satisfied \/ value(c[q]) = l_True]
       ELSE CountLits(c, q + 1, lit1count + 1, c[q],
                      satisfied \/ value(c[q]) = l_True)
  ELSE CountLits(c, q + 1, lit1count, plit, satisfied)

\* "if (lit1count == 1)" for clause i, r being what the loop left
Forced(w, i, r) ==
  IF r.lit1count = 1
  THEN IF w.in_cover[var(r.plit)]
       THEN [w EXCEPT !.coverCount[i] = @ + 1,
                      !.ok = @ /\ r.satisfied /\ r.plit # lit_Undef
                               /\ include[var(r.plit)]]
       ELSE [w EXCEPT !.coverCount[i] = @ + 1,
                      !.ok = @ /\ r.satisfied /\ r.plit # lit_Undef
                               /\ include[var(r.plit)]
                               /\ value(r.plit) # l_False,
                      !.in_cover[var(r.plit)] = TRUE,
                      !.cover = Append(@, r.plit),
                      !.forced = @ + 1]
  ELSE [w EXCEPT !.ok = @ /\ r.satisfied]

\* the first pass over the clauses
RECURSIVE FirstPass(_, _)
FirstPass(w, i) ==
  IF i > Len(clauses) THEN w
  ELSE FirstPass(Forced(w, i, CountLits(clauses[i], 1, 0, lit_Undef, FALSE)),
                 i + 1)

\* the loop over the literals c[j ..] of the second pass: whether the clause
\* is covered already (sat) and uncovered[i]
RECURSIVE Collect(_, _, _, _)
Collect(w, c, j, unc) ==
  IF j > Len(c) THEN [sat |-> FALSE, unc |-> unc]
  ELSE IF value(c[j]) = l_True
  THEN IF ~include[var(c[j])] \/ w.in_cover[var(c[j])]
       THEN [sat |-> TRUE, unc |-> << >>]
       ELSE Collect(w, c, j + 1, Append(unc, c[j]))
  ELSE Collect(w, c, j + 1, unc)

\* "increase the greed score": the literals unc[j ..] of uncovered[i]
RECURSIVE Score(_, _, _, _)
Score(w, i, unc, j) ==
  IF j > Len(unc) THEN w
  ELSE Score([w EXCEPT
                !.ok = @ /\ include[var(unc[j])]
                         /\ (w.mVarsGreedyScore[var(unc[j])] = 0
                               => ~w.in_cover[var(unc[j])]),
                !.potentialCoverLits =
                   IF w.mVarsGreedyScore[var(unc[j])] = 0
                   THEN Append(@, unc[j]) ELSE @,
                !.mVarsGreedyScore[var(unc[j])] = @ + 1,
                !.mVarsInUncCls[var(unc[j])] = Append(@, i)],
             i, unc, j + 1)

\* clause i of the second pass, r being what the loop over its literals left
Candidates(w, i, r) ==
  IF r.sat THEN [w EXCEPT !.coverCount[i] = @ + 1]
  ELSE Score([w EXCEPT !.ok = @ /\ w.coverCount[i] = 0], i, r.unc, 1)

\* the second pass over the clauses
RECURSIVE SecondPass(_, _)
SecondPass(w, i) ==
  IF i > Len(clauses) THEN w
  ELSE SecondPass(Candidates(w, i, Collect(w, clauses[i], 1, << >>)), i + 1)

\* sort(potentialCoverLits, cover_lt(*this)): the orders of lits in which
\* no literal comes before one of a greater score
SortedOrders(lits, score) ==
  {o \in {[k \in 1 .. Len(lits) |-> lits[pi[k]]] :
             pi \in Permutations(1 .. Len(lits))} :
     \A k \in 1 .. Len(o) - 1 : score[var(o[k])] >= score[var(o[k + 1])]}

\* "for( ;i<S.clauses.size();i++) if (coverCount[i]==0) break"
RECURSIVE FirstUncovered(_, _)
FirstUncovered(w, i) ==
  IF i > Len(clauses) THEN i
  ELSE IF w.coverCount[i] = 0 THEN i
  ELSE FirstUncovered(w, i + 1)

\* "if (coverCount[clause] == 0) allcovered = false" for some clause of the
\* list of inVid
Gains(w, inVid) ==
  \E j \in 1 .. Len(w.mVarsInUncCls[var(inVid)]) :
     w.coverCount[w.mVarsInUncCls[var(inVid)][j]] = 0

\* a third pass that pushes every candidate it visits
PickAlways(w, inVid) ==
  [w EXCEPT
     !.ok = @ /\ value(inVid) = l_True,
     !.gain = @ /\ Gains(w, inVid),
     !.cover = Append(@, inVid),
     !.greedy = @ + 1,
     !.coverCount =
        [cl \in DOMAIN @ |->
           IF \E j \in 1 .. Len(w.mVarsInUncCls[var(inVid)]) :
                 w.mVarsInUncCls[var(inVid)][j] = cl
           THEN @[cl] + 1 ELSE @[cl]]]

\* the candidate inVid of the third pass: pushed if a clause of its list
\* still has cover count 0
Pick(w, inVid) ==
  IF Gains(w, inVid)
  THEN [w EXCEPT
          !.ok = @ /\ value(inVid) = l_True,
          !.gain = @ /\ Gains(w, inVid),
          !.cover = Append(@, inVid),
          !.greedy = @ + 1,
          !.coverCount =
             [cl \in DOMAIN @ |->
                IF \E j \in 1 .. Len(w.mVarsInUncCls[var(inVid)]) :
                      w.mVarsInUncCls[var(inVid)][j] = cl
                THEN @[cl] + 1 ELSE @[cl]]]
  ELSE w

\* the third pass: "while (true)", i and scoreRank as the loop has them; a
\* read past the end of potentialCoverLits ends the call with ok false
RECURSIVE ThirdPass(_, _, _)
ThirdPass(w, i, scoreRank) ==
  IF FirstUncovered(w, i) > Len(clauses) THEN w
  ELSE IF scoreRank > Len(w.potentialCoverLits)
  THEN [w EXCEPT !.ok = FALSE, !.pastEnd = TRUE]
  ELSE ThirdPass(Pick(w, w.potentialCoverLits[scoreRank]),
                 FirstUncovered(w, i), scoreRank + 1)

\* a pruning that starts at the head of cover
FirstGreedyFromHead(w, i) == i

\* "if ( mVarsInUncCls[var(l)].size()!=0) break": the place in cover of the
\* first literal the third pass pushed
RECURSIVE FirstGreedy(_, _)
FirstGreedy(w, i) ==
  IF i > Len(w.cover) THEN i
  ELSE IF w.mVarsInUncCls[var(w.cover[i])] # << >> THEN i
  ELSE FirstGreedy(w, i + 1)

\* a pruning that removes a literal as soon as one clause of its list has
\* another cover
RECURSIVE PruneEager(_, _, _)
PruneEager(w, i, kept) ==
  IF i > Len(w.cover) THEN [w EXCEPT !.cover = kept]
  ELSE IF \A k \in 1 .. Len(w.mVarsInUncCls[var(w.cover[i])]) :
             w.coverCount[w.mVarsInUncCls[var(w.cover[i])][k]] = 1
  THEN PruneEager(w, i + 1, Append(kept, w.cover[i]))
  ELSE PruneEager([w EXCEPT
                     !.pruned = @ + 1,
                     !.coverCount =
                        [cl \in DOMAIN @ |->
                           IF \E k \in 1 .. Len(w.mVarsInUncCls[var(w.cover[i])]) :
                                 w.mVarsInUncCls[var(w.cover[i])][k] = cl
                           THEN @[cl] - 1 ELSE @[cl]]],
                  i + 1, kept)

\* the pruning: cover[i ..] is looked at, kept is cover[0 .. j)
RECURSIVE Prune(_, _, _)
Prune(w, i, kept) ==
  IF i > Len(w.cover) THEN [w EXCEPT !.cover = kept]
  ELSE IF \E k \in 1 .. Len(w.mVarsInUncCls[var(w.cover[i])]) :
             w.coverCount[w.mVarsInUncCls[var(w.cover[i])][k]] = 1
  THEN Prune([w EXCEPT !.ok = @ /\ w.mVarsInUncCls[var(w.cover[i])] # << >>],
             i + 1, Append(kept, w.cover[i]))
  ELSE Prune([w EXCEPT
                !.ok = @ /\ w.mVarsInUncCls[var(w.cover[i])] # << >>,
                !.pruned = @ + 1,
                !.coverCount =
                   [cl \in DOMAIN @ |->
                      IF \E k \in 1 .. Len(w.mVarsInUncCls[var(w.cover[i])]) :
                            w.mVarsInUncCls[var(w.cover[i])][k] = cl
                      THEN @[cl] - 1 ELSE @[cl]]],
             i + 1, kept)

\* a return that skips the pruning
SelectUnpruned(w) == w

\* the third pass and the pruning on the sorted candidates
Select(w) ==
  Prune(w, FirstGreedy(w, 1), SubSeq(w.cover, 1, FirstGreedy(w, 1) - 1))

\* the passes before the sort
getCoverScored == SecondPass(FirstPass(TrailPass(Work, 1), 1), 1)

\* getCover without opt_fast_partial, the sort having left the order o
getCoverExact(w, o) ==
  Select(ThirdPass([w EXCEPT !.potentialCoverLits = o], 1, 1))

\* ------------------------------------------------------------------------
\* The calls on a Cover
\* ------------------------------------------------------------------------
\* void excludeFromCover(Var v, bool exclude)
excludeFromCover(v, exclude) ==
  /\ excludes < MaxExcludes
  /\ include' = [include EXCEPT ![v] = ~exclude]
  /\ excludes' = excludes + 1
  /\ UNCHANGED <<svars, subset, in_cover, cover, cres, flowvars>>

\* the caller's part of the contract: every included variable has a value
\* (every clause has a true literal in every Solver of the model)
Assigned == \A v \in Vars : include[v] => assigns[v] # l_Undef

\* what getCover leaves, w being the vectors at its return; order is the
\* order the sort left the candidates in, again says that the call before
\* was made with the same inclusion flags
CoverReturn(mode, w) ==
  /\ subset' = BuildSubset
  /\ in_cover' = w.in_cover
  /\ cover' = w.cover
  /\ cres' = [mode |-> mode, ok |-> w.ok, forced |-> w.forced,
              greedy |-> w.greedy, pruned |-> w.pruned,
              coverCount |-> w.coverCount, include |-> include,
              order |-> w.potentialCoverLits,
              score |-> w.mVarsGreedyScore,
              gain |-> w.gain, pastEnd |-> w.pastEnd,
              again |-> cres.mode # "none" /\ cres.include = include]
  /\ UNCHANGED <<svars, include, excludes, flowvars>>

GetCoverFast ==
  /\ opt_fast_partial
  /\ Assigned
  /\ CoverReturn("fast", getCoverFast)

GetCoverExact ==
  /\ ~opt_fast_partial
  /\ Assigned
  /\ \E o \in SortedOrders(getCoverScored.potentialCoverLits,
                          getCoverScored.mVarsGreedyScore) :
        CoverReturn("exact", getCoverExact(getCoverScored, o))

\* no graph and no engine at work
FlowIdle ==
  /\ InitGraph
  /\ InitEngine
  /\ pairs = {}
  /\ budget = 0
  /\ reuse = FALSE
  /\ cut = << >>
  /\ res = NoOutcome
  /\ calls = NoRecord

\* Cover(): no variable excluded, no subset yet
InitCover ==
  /\ FlowIdle
  /\ InitSolver
  /\ include = [v \in Vars |-> TRUE]
  /\ subset = << >>
  /\ in_cover = [v \in Vars |-> FALSE]
  /\ cover = << >>
  /\ excludes = 0
  /\ cres = [mode |-> "none"]

NextCover ==
  \/ \E v \in Vars, exclude \in BOOLEAN : excludeFromCover(v, exclude)
  \/ GetCoverFast
  \/ GetCoverExact

SpecCover == InitCover /\ [][NextCover]_vars

\* ------------------------------------------------------------------------
\* Properties of Cover
\* ------------------------------------------------------------------------
\* clause i has a literal in the cover, or a true literal of a variable
\* excluded at the call
ClauseCovered(i) ==
  \E l \in SeqLits(clauses[i]) :
     \/ l \in SeqLits(cover)
     \/ value(l) = l_True /\ ~cres.include[var(l)]

\* C8: in exact mode, given an assignment that satisfies every clause and
\* assigns every included variable, after getCover returns every clause has
\* a literal that is in the cover or is a true literal of an excluded
\* variable.
CoverageExact ==
  cres.mode = "exact" => \A i \in 1 .. Len(clauses) : ClauseCovered(i)

CoverageExactWitness ==
  /\ cres.mode = "exact"
  /\ cres.greedy >= 2
  /\ cres.pruned >= 1
  /\ \E v \in Vars : ~cres.include[v] /\ assigns[v] = l_Undef
  /\ \A i \in 1 .. Len(clauses) : ClauseCovered(i)

\* C9: in fast mode, given an assignment that satisfies every clause and
\* assigns every included variable, with every clause watched by its first
\* two literals and every blocker a literal of its clause, after getCover
\* returns every clause has a literal that is in the cover or is a true
\* literal of an excluded variable.
CoverageFast ==
  cres.mode = "fast" => \A i \in 1 .. Len(clauses) : ClauseCovered(i)

\* C10: in both modes every literal of the returned cover is true, belongs
\* to a variable included at the call, and no variable is in the cover
\* twice.
Validity ==
  cres.mode # "none" =>
     \A k \in 1 .. Len(cover) :
        /\ value(cover[k]) = l_True
        /\ cres.include[var(cover[k])]
        /\ \A k2 \in 1 .. Len(cover) : k2 # k => var(cover[k2]) # var(cover[k])

\* some clause has no literal among lits and no true literal of a variable
\* excluded at the call
LeavesUncovered(lits) ==
  \E i \in 1 .. Len(clauses) :
     \A l \in SeqLits(clauses[i]) :
        /\ l \notin lits
        /\ ~(value(l) = l_True /\ ~cres.include[var(l)])

\* every literal of the cover that is not a literal of level 0 is needed:
\* without it some clause is left uncovered
LocallyMinimal ==
  \A k \in 1 .. Len(cover) :
     cover[k] \notin SeqLits(trail) => LeavesUncovered(SeqLits(cover) \ {cover[k]})

\* C11: in exact mode, for every literal L of the returned cover that is not
\* a literal of decision level 0, removing L alone from the cover leaves at
\* least one clause with no cover literal and no true literal of an excluded
\* variable.
LocalMinimalityExact == cres.mode = "exact" => LocallyMinimal

LocalMinimalityExactWitness ==
  /\ cres.mode = "exact"
  /\ cres.forced >= 1
  /\ cres.greedy >= 1
  /\ \A k \in 1 .. Len(cover) : cover[k] \notin SeqLits(trail)
  /\ LocallyMinimal

\* C12: in fast mode, for every literal L of the returned cover that is not
\* a literal of decision level 0, removing L alone from the cover leaves at
\* least one clause with no cover literal and no true literal of an excluded
\* variable.
LocalMinimalityFast == cres.mode = "fast" => LocallyMinimal

\* C13: a getCover call that follows a getCover call on the same Cover, with
\* the Solver unchanged, the inclusion flags the same, the same mode and the
\* same order out of the sort, returns the literal sequence the call before
\* returned; nothing the first call left in the Cover changes it.
CoverIdempotence ==
  [][(/\ cres.mode # "none"
      /\ cres.include = include
      /\ include' = include
      /\ cres'.order = cres.order) => cover' = cover]_vars

CoverIdempotenceWitness ==
  /\ cres.mode # "none"
  /\ cres.again
  /\ Len(cover) >= 2
  /\ \E v \in Vars : ~include[v]

\* the documented cover scenario B at the return of a call: the one clause
\* (1 or 2), 1 and 2 true, 1 included and 2 excluded, no literal at level 0
CoverScenarioB ==
  /\ clauses = << <<1, 2>> >>
  /\ assigns[1] = l_True /\ assigns[2] = l_True
  /\ cres.include[1] /\ ~cres.include[2]
  /\ trail = << >>

\* l is a true literal of clause i, of a variable included at the call
EligibleTrue(i, l) ==
  l \in SeqLits(clauses[i]) /\ value(l) = l_True /\ cres.include[var(l)]

FastScansIncluded ==
  cres.mode = "fast" =>
     /\ {subset[j] : j \in 1 .. Len(subset)} = {v \in Vars : cres.include[v]}
     /\ \A l \in SeqLits(cover) : cres.include[var(l)]

\* the variables the pass over level 0 put in the cover
TrailVars == {var(trail[i]) : i \in {x \in 1 .. Len(trail) : cres.include[var(trail[x])]}}

\* the variables in the cover when the scan came to subset[j]: those of
\* level 0 and those pushed for an earlier variable of subset
InCoverBefore(j) ==
  TrailVars \cup {subset[i] : i \in {x \in 1 .. j - 1 :
                                      TrueLit(subset[x]) \in SeqLits(cover)}}

\* l was a true literal of an excluded variable or of a variable in the
\* cover when the scan came to subset[j]
CoveredThen(j, l) ==
  value(l) = l_True /\ (~cres.include[var(l)] \/ var(l) \in InCoverBefore(j))

\* the watchers of subset[j] that neither the blocker nor the other watched
\* literal covered when the scan came to subset[j]
UncoveredWatchers(j) ==
  {k \in 1 .. Len(watches[-TrueLit(subset[j])]) :
     /\ ~(/\ watches[-TrueLit(subset[j])][k].blocker # lit_Undef
           /\ CoveredThen(j, watches[-TrueLit(subset[j])][k].blocker))
     /\ ~CoveredThen(j, other_watcher(watches[-TrueLit(subset[j])][k].cref,
                                       TrueLit(subset[j])))}

\* the clause the scan of subset[j] stopped at
StoppedAt(j) ==
  watches[-TrueLit(subset[j])]
         [CHOOSE k \in UncoveredWatchers(j) :
             \A k2 \in UncoveredWatchers(j) : k <= k2].cref

\* l is a true literal of a variable included at the call
EligibleTrueLit(l) == value(l) = l_True /\ cres.include[var(l)]

\* the variables the scan looked at the watchers of
Scanned == {j \in 1 .. Len(subset) : subset[j] \notin TrailVars}

\* C24: in fast mode the literal of v is added for a watched clause only
\* when v is the sole true eligible literal of that clause; a clause whose
\* other watched literal is a true literal of an eligible variable not yet in
\* the cover does not cause the literal of v to be added (the choice is
\* deferred).
FastDeferral ==
  cres.mode = "fast" =>
     \A j \in Scanned :
        TrueLit(subset[j]) \in SeqLits(cover) =>
           /\ UncoveredWatchers(j) # {}
           /\ ~EligibleTrueLit(other_watcher(StoppedAt(j), TrueLit(subset[j])))
           /\ \A l \in SeqLits(clauses[StoppedAt(j)]) \ {TrueLit(subset[j])} :
                 ~EligibleTrueLit(l)

\* C24, as the code has it: in fast mode the literal of a scanned variable v
\* is added exactly when some clause watching it is covered neither by its
\* blocker nor by its other watched literal at that point of the scan, be
\* that other literal false, unassigned, or a true literal of an eligible
\* variable not yet in the cover; nothing is deferred.
FastPicksFirstUncovered ==
  cres.mode = "fast" =>
     \A j \in Scanned :
        TrueLit(subset[j]) \in SeqLits(cover) <=> UncoveredWatchers(j) # {}

FastPicksFirstUncoveredWitness ==
  /\ cres.mode = "fast"
  /\ cres.ok
  /\ \E j \in Scanned :
        /\ UncoveredWatchers(j) # {}
        /\ EligibleTrueLit(other_watcher(StoppedAt(j), TrueLit(subset[j])))
        /\ TrueLit(subset[j]) \in SeqLits(cover)
  /\ \E j \in Scanned :
        /\ UncoveredWatchers(j) = {}
        /\ watches[-TrueLit(subset[j])] # << >>
        /\ TrueLit(subset[j]) \notin SeqLits(cover)

\* the documented cover scenario A at the return of a call: the clauses
\* (1 or 2), (not 1 or 3), (2 or 3), 1 true, 2 false, 3 true, every variable
\* included, no literal at level 0
CoverScenarioA ==
  /\ clauses = << <<1, 2>>, <<-1, 3>>, <<2, 3>> >>
  /\ assigns[1] = l_True /\ assigns[2] = l_False /\ assigns[3] = l_True
  /\ \A v \in Vars : cres.include[v]
  /\ trail = << >>

\* l is the only literal of clause i that is not false, and its variable
\* was included at the call
OnlyNonFalse(i, l) ==
  /\ EligibleTrue(i, l)
  /\ \A m \in SeqLits(clauses[i]) \ {l} : value(m) = l_False

\* the literals the first pass and the pass over level 0 left at the head of
\* cover: as many as the two passes pushed
ForcedPrefix == Cardinality(TrailVars) + cres.forced

\* C25: in exact mode every clause whose only non-false literal is a literal
\* L of an included variable has L in the returned cover, before every
\* literal the greedy pass chose, and the pruning removes none of these
\* literals; in the documented scenario A the cover returned is {1, 3}.
ForcedLiteralsKept ==
  cres.mode = "exact" =>
     /\ Len(cover) = ForcedPrefix + cres.greedy - cres.pruned
     /\ cres.pruned <= cres.greedy
     /\ \A i \in 1 .. Len(clauses) : \A l \in Lits :
           OnlyNonFalse(i, l) =>
              \E k \in 1 .. ForcedPrefix : k <= Len(cover) /\ cover[k] = l
     /\ CoverScenarioA => Len(cover) = 2 /\ SeqLits(cover) = {1, 3}

ForcedLiteralsKeptWitness ==
  /\ cres.mode = "exact"
  /\ cres.ok
  /\ cres.forced >= 1
  /\ cres.greedy >= 1
  /\ Len(cover) = ForcedPrefix + cres.greedy - cres.pruned
  /\ \E i \in 1 .. Len(clauses) : \E l \in Lits :
        OnlyNonFalse(i, l) /\ l \notin SeqLits(trail)

\* every clause has a true literal
Satisfying ==
  \A i \in 1 .. Len(clauses) : \E l \in SeqLits(clauses[i]) : value(l) = l_True

\* the place of the literal l in the order the sort left
Rank(l) == CHOOSE k \in 1 .. Len(cres.order) : cres.order[k] = l

\* C26: in exact mode with a satisfying assignment, the third pass visits
\* the candidates in an order of non-increasing greedy score, pushes a
\* candidate only if a clause of its list still has cover count 0, never
\* reads potentialCoverLits at or beyond its size while a clause has cover
\* count 0, and ends with the cover count of every clause at least 1.
GreedyProgress ==
  (cres.mode = "exact" /\ Satisfying) =>
     /\ \A k \in 1 .. Len(cres.order) - 1 :
           cres.score[var(cres.order[k])] >= cres.score[var(cres.order[k + 1])]
     /\ \A a \in ForcedPrefix + 1 .. Len(cover) :
           /\ cover[a] \in SeqLits(cres.order)
           /\ \A b \in a + 1 .. Len(cover) : Rank(cover[a]) < Rank(cover[b])
     /\ cres.gain
     /\ ~cres.pastEnd
     /\ \A i \in 1 .. Len(clauses) : cres.coverCount[i] >= 1

GreedyProgressWitness ==
  /\ cres.mode = "exact" /\ Satisfying
  /\ cres.greedy >= 2
  /\ Len(cres.order) > cres.greedy
  /\ \E k \in 1 .. Len(cres.order) - 1 :
        cres.score[var(cres.order[k])] > cres.score[var(cres.order[k + 1])]
  /\ ~cres.pastEnd
====
